---------------------------- MODULE Spec2Model ----------------------------
(***************************************************************************)
(* Model of logging_with_arcpy.py: init_logging, add_handler,              *)
(* flush_and_close_logger, _logging_is_active and ArcPyLogHandler.emit,    *)
(* acting on the root logger of Python's logging module and on the host's  *)
(* three arcpy message channels.                                           *)
(*                                                                         *)
(* Strings of the program are strings here.  A format template is the      *)
(* sequence of its space-separated tokens ("" is the empty sequence).  A   *)
(* file is the sequence of the lines written to it.  What goes to stderr   *)
(* (the StreamHandler of logging.basicConfig, logging's handleError and    *)
(* lastResort) is not recorded.                                            *)
(***************************************************************************)
EXTENDS Integers, Sequences, FiniteSets, TLC

(***************************************************************************)
(* Bounds of the model.                                                    *)
(***************************************************************************)
\* calls made to the module, to the root logger and to logging.basicConfig
\* during one session of the host; each constructs at most one handler
MaxCalls == 5

(***************************************************************************)
(* Severity levels of the logging module.                                  *)
(***************************************************************************)
NOTSET == 0
INFO == 20
WARNING == 30
ERROR == 40
DEBUG == INFO - 10
CRITICAL == ERROR + 10

\* the level the root logger has before anything configures it
RootDefaultLevel == WARNING

(***************************************************************************)
(* Inputs.                                                                 *)
(***************************************************************************)
\* levels of the records given to ArcPyLogHandler.emit
RecordLevels == {NOTSET, DEBUG, INFO, WARNING - 1, WARNING, ERROR - 1, ERROR, CRITICAL}
\* levels of the records logged through the root logger
LoggedLevels == {NOTSET, INFO, WARNING, ERROR}
\* level of a logging.basicConfig(level=...) done by another tool of the session
EarlierLevels == {ERROR}

DefaultDateFmt == "%d-%m-%Y %H:%M"
YearDateFmt == "%Y"

\* fmt="" and the template the docstring of init_logging recommends
EmptyFmt == << >>
NoUserFmt == <<"%(asctime)s", "%(message)s">>

\* a path that cannot be opened (its directory does not exist)
BadPath == "/nodir/log.txt"
LogPath == "log.txt"
ArcPath == "arc.log"
Files == {LogPath, ArcPath}

\* the calls of init_logging: its defaults; the docstring's template with a
\* level, a date format and a mode of the caller's; a path that cannot be opened
InitCalls ==
    { [filename |-> LogPath, level |-> INFO, fmt |-> EmptyFmt,
       datefmt |-> DefaultDateFmt, mode |-> "a"],
      [filename |-> LogPath, level |-> WARNING, fmt |-> NoUserFmt,
       datefmt |-> YearDateFmt, mode |-> "w"],
      [filename |-> BadPath, level |-> INFO, fmt |-> EmptyFmt,
       datefmt |-> DefaultDateFmt, mode |-> "a"] }

\* the (level, fmt, datefmt) given to add_handler: its defaults, and values of
\* the caller's
AddCalls ==
    { [level |-> INFO, fmt |-> EmptyFmt, datefmt |-> DefaultDateFmt],
      [level |-> WARNING, fmt |-> NoUserFmt, datefmt |-> YearDateFmt] }

\* (msg, args) of a record: args "" is the empty tuple, "7" the int 7, "x" a str
RecordMsgs == {"n=%d"}
\* every level with args that fit msg; one level of each channel with args
\* that do not
Records ==
    [levelno : RecordLevels, msg : RecordMsgs, args : {"7"}]
       \cup [levelno : {INFO, WARNING, ERROR}, msg : RecordMsgs, args : {"x"}]
LoggedRecords ==
    [levelno : LoggedLevels, msg : RecordMsgs, args : {"7"}]
       \cup [levelno : {ERROR}, msg : RecordMsgs, args : {"x"}]

\* the environment read by the default template
UserName == "alice"
HostName == "box1"

HandlerIds == 1..MaxCalls
\* the StreamHandler logging.basicConfig makes inside init_logging: it is
\* removed again before init_logging returns
Transient == 0
\* logging.lastResort, the handler on stderr the logging module constructs
\* when it is imported: the oldest entry of logging._handlerList
LastResort == Transient - 1
\* the handlers a caller can hand to add_handler
AllHandlers == {LastResort} \cup HandlerIds

(***************************************************************************)
(* Formatting.                                                             *)
(***************************************************************************)
\* str.upper() on the host names of the model
Upper(s) == CASE s = "box1" -> "BOX1" [] OTHER -> s

\* "%(asctime)s {} {} %(message)s".format(os.getenv('USERNAME'), socket.gethostname().upper())
DefaultFmt == <<"%(asctime)s", UserName, Upper(HostName), "%(message)s">>

\* logging.Formatter(fmt, datefmt)
Formatter(fmt, datefmt) == [fmt |-> fmt, datefmt |-> datefmt]
\* a handler whose formatter is None
NoFormatter == [fmt |-> << >>, datefmt |-> "None"]
\* logging's _defaultFormatter, used by Handler.format when the formatter is None
StdFormatter == [fmt |-> <<"%(message)s">>, datefmt |-> "None"]

\* LogRecord.getMessage: msg % args when there are args
GetMessage(rec) ==
    IF rec.args = "" THEN [ok |-> TRUE, text |-> rec.msg]
    ELSE IF rec.msg = "n=%d" /\ rec.args = "7" THEN [ok |-> TRUE, text |-> "n=7"]
    ELSE [ok |-> FALSE, text |-> ""]

\* Formatter.formatTime at the (fixed) time of the model's records
FormatTime(datefmt) ==
    CASE datefmt = YearDateFmt -> "2026"
      [] datefmt = DefaultDateFmt -> "29-10-2026 19:32"
      [] OTHER -> "2026-10-29 19:32:00,000"

RECURSIVE Render(_, _, _)
\* fmt % record.__dict__, token by token, joined by spaces
Render(tokens, message, datefmt) ==
    IF tokens = << >> THEN ""
    ELSE LET t == Head(tokens)
             s == CASE t = "%(asctime)s" -> FormatTime(datefmt)
                    [] t = "%(message)s" -> message
                    [] OTHER -> t
             rest == Render(Tail(tokens), message, datefmt)
         IN IF Tail(tokens) = << >> THEN s ELSE s \o " " \o rest

\* Handler.format(record): the handler's formatter, or the default one
Format(formatter, rec) ==
    LET f == IF formatter = NoFormatter THEN StdFormatter ELSE formatter
        m == GetMessage(rec)
    IN IF m.ok THEN [ok |-> TRUE, text |-> Render(f.fmt, m.text, f.datefmt)]
       ELSE [ok |-> FALSE, text |-> ""]

(***************************************************************************)
(* Handlers and files.                                                     *)
(***************************************************************************)
\* an id no handler has been constructed for
Unborn ==
    [kind |-> "none", level |-> NOTSET, formatter |-> NoFormatter, stream |-> "none",
     closed |-> FALSE, file |-> "", mode |-> "", pos |-> 0, buf |-> << >>]

\* a handler nothing refers to any more: the object has been destroyed and
\* its weak reference has left logging._handlerList
Destroyed ==
    [kind |-> "gone", level |-> NOTSET, formatter |-> NoFormatter, stream |-> "none",
     closed |-> FALSE, file |-> "", mode |-> "", pos |-> 0, buf |-> << >>]

\* logging.BASIC_FORMAT, the template logging.basicConfig uses
BasicFormatter == [fmt |-> <<"%(levelname)s:%(name)s:%(message)s">>, datefmt |-> "None"]

\* logging.StreamHandler() on stderr, as logging.basicConfig constructs it
NewStreamHandler ==
    [kind |-> "stream", level |-> NOTSET, formatter |-> BasicFormatter, stream |-> "open",
     closed |-> FALSE, file |-> "", mode |-> "", pos |-> 0, buf |-> << >>]

\* logging._StderrHandler(WARNING), the class of logging.lastResort
NewStderrHandler ==
    [kind |-> "stream", level |-> WARNING, formatter |-> NoFormatter, stream |-> "open",
     closed |-> FALSE, file |-> "", mode |-> "", pos |-> 0, buf |-> << >>]

\* logging.FileHandler(filename, mode=mode, encoding=None, delay=False)
NewFileHandler(filename, mode) ==
    [kind |-> "file", level |-> NOTSET, formatter |-> NoFormatter, stream |-> "open",
     closed |-> FALSE, file |-> filename, mode |-> mode, pos |-> 0, buf |-> << >>]

\* ArcPyLogHandler(ArcPath): the RotatingFileHandler constructor, mode 'a'
NewArcPyLogHandler ==
    [kind |-> "arcpy", level |-> NOTSET, formatter |-> NoFormatter, stream |-> "open",
     closed |-> FALSE, file |-> ArcPath, mode |-> "a", pos |-> 0, buf |-> << >>]

\* A file is a sequence of bytes.  The byte <<text, k>> is the k-th character
\* of text, and the newline after it when k is Len(text) + 1.
\* the byte of a hole, left by a write beyond the end of the file
Nul == <<"", 0>>

\* the bytes of text and the terminator StreamHandler.emit writes after it
LineBytes(text) == [k \in 1..(Len(text) + 1) |-> <<text, k>>]

IsNewline(b) == b[2] = Len(b[1]) + 1

\* the lines a file holds: its newlines
LineCount(bytes) == Cardinality({i \in 1..Len(bytes) : IsNewline(bytes[i])})

RECURSIVE BufBytes(_)
BufBytes(buf) == IF buf = << >> THEN << >> ELSE LineBytes(Head(buf)) \o BufBytes(Tail(buf))

Max(a, b) == IF a >= b THEN a ELSE b

\* write(2) of bytes at the offset at: it overwrites what is there, extends the
\* file, and leaves a hole when at is beyond the end
WriteAt(content, at, bytes) ==
    [i \in 1..Max(Len(content), at + Len(bytes)) |->
        IF i > at /\ i <= at + Len(bytes) THEN bytes[i - at]
        ELSE IF i <= Len(content) THEN content[i]
        ELSE Nul]

\* open(filename, mode): 'w' truncates, 'a' keeps what is there
Open(fs, filename, mode) ==
    IF mode = "w" THEN [fs EXCEPT ![filename] = << >>] ELSE fs

\* the offset of a stream just opened: 0 in mode 'w', the end of the file in
\* mode 'a'
OpenAt(o, fs) == [o EXCEPT !.pos = IF o.mode = "w" THEN 0 ELSE Len(fs[o.file])]

CanOpen(filename) == filename # BadPath

VARIABLES
    rootLevel,   \* logging.getLogger().level
    handlers,    \* logging.getLogger().handlers: a sequence of handler ids
    hs,          \* the handler object of each id
    nextId,      \* the id of the next handler to be constructed
    held,        \* the handlers the caller holds in a variable of its own
    files,       \* the content of each file
    calls,       \* the calls the last operation made to arcpy: <<channel, payload>>
    ncalls,      \* the operations of the session so far
    last         \* the last operation, its arguments and what it did

vars == <<rootLevel, handlers, hs, nextId, held, files, calls, ncalls, last>>

\* logging._handlerList: weak references to the handlers constructed so far
\* that still exist, the oldest first; logging.lastResort is the first of them
HandlerList ==
    <<LastResort>> \o SelectSeq([i \in 1..(nextId - 1) |-> i],
                                LAMBDA i : hs[i].kind # "gone")

NoRecord == [levelno |-> NOTSET, msg |-> "", args |-> ""]

\* what `last` holds when an operation does not use a field
Blank ==
    [op |-> "none", h |-> Transient, level |-> NOTSET, fmt |-> EmptyFmt,
     datefmt |-> "", removed |-> << >>, left |-> << >>, indexError |-> FALSE,
     raised |-> FALSE,
     ops |-> << >>, result |-> FALSE, rec |-> NoRecord]

Init ==
    /\ rootLevel = RootDefaultLevel
    /\ handlers = << >>
    /\ hs = [i \in {LastResort, Transient} \cup HandlerIds |->
                CASE i = LastResort -> NewStderrHandler
                  [] i = Transient -> NewStreamHandler
                  [] OTHER -> Unborn]
    /\ nextId = 1
    /\ held = {}
    /\ files = [f \in Files |-> << >>]
    /\ calls = << >>
    /\ ncalls = 0
    /\ last = Blank

(***************************************************************************)
(* The root logger's registry.                                             *)
(***************************************************************************)
InSeq(x, s) == \E i \in 1..Len(s) : s[i] = x

\* addHandler putting the handler first
LoggerAddHandlerFront(hl, h) == IF InSeq(h, hl) THEN hl ELSE <<h>> \o hl

\* Logger.addHandler: appended unless it is in the list already
LoggerAddHandler(hl, h) == IF InSeq(h, hl) THEN hl ELSE Append(hl, h)

RECURSIVE ListRemove(_, _)
\* list.remove(x): the first occurrence goes
ListRemove(s, x) ==
    IF s = << >> THEN << >>
    ELSE IF Head(s) = x THEN Tail(s)
    ELSE <<Head(s)>> \o ListRemove(Tail(s), x)

\* Logger.removeHandler
LoggerRemoveHandler(hl, h) == IF InSeq(h, hl) THEN ListRemove(hl, h) ELSE hl

\* logging.basicConfig(level=level): does something only when the root logger
\* has no handler; newId is the StreamHandler it then constructs
BasicConfig(hl, rl, level, newId) ==
    IF Len(hl) = 0
    THEN [handlers |-> <<newId>>, rootLevel |-> level, made |-> TRUE]
    ELSE [handlers |-> hl, rootLevel |-> rl, made |-> FALSE]

\* range(n-1, 0, -1): index 0 is left out
RangeDownToOne(n) == [k \in 1..(n - 1) |-> n - k]

\* range(0, n): from the front
RangeUp(n) == [k \in 1..n |-> k - 1]

\* range(n-1, -1, -1)
RangeDown(n) == [k \in 1..n |-> n - k]

RECURSIVE RemovalLoop(_, _, _)
\* for i in idx: root_logger.removeHandler(root_logger.handlers[i])
\* (the indexes are those of Python: handlers[i] is hl[i + 1])
RemovalLoop(hl, idx, removed) ==
    IF idx = << >>
    THEN [handlers |-> hl, removed |-> removed, indexError |-> FALSE]
    ELSE LET i == Head(idx)
         IN IF i >= Len(hl)
            THEN [handlers |-> hl, removed |-> removed, indexError |-> TRUE]
            ELSE RemovalLoop(LoggerRemoveHandler(hl, hl[i + 1]), Tail(idx),
                             Append(removed, hl[i + 1]))

\* the removal step of init_logging
RemoveAllHandlers(hl) == RemovalLoop(hl, RangeDown(Len(hl)), << >>)

\* add_handler(h, level, fmt, datefmt) on the registry hl and the handler objects hsf
AddHandlerTo(hl, hsf, h, level, fmt, datefmt) ==
    LET f == IF fmt = EmptyFmt THEN DefaultFmt ELSE fmt
    IN [handlers |-> LoggerAddHandler(hl, h),
        hs |-> [hsf EXCEPT ![h].level = level,
                           ![h].formatter = Formatter(f, datefmt)]]

\* what the removal loop of init_logging leaves of the handler objects: a
\* handler it has taken out of the registry and that the caller holds no
\* reference to is destroyed at once
Collect(hsf, removed, hl, keep) ==
    [i \in DOMAIN hsf |->
        IF i \in HandlerIds /\ InSeq(i, removed) /\ ~InSeq(i, hl) /\ i \notin keep
        THEN Destroyed
        ELSE hsf[i]]

\* the arguments init_logging(filename, level, fmt, datefmt, mode) gives add_handler:
\* add_handler(logging.FileHandler(...), level=level)
InitAddArgs(level, fmt, datefmt) ==
    [level |-> level, fmt |-> EmptyFmt, datefmt |-> DefaultDateFmt]

\* len(logging.getLogger().handlers) > 1
LoggingIsActiveMoreThanOne(hl) == Len(hl) > 1

\* len(logging.getLogger().handlers) > 0
LoggingIsActive(hl) == Len(hl) > 0

(***************************************************************************)
(* Flushing, closing and emitting.  A world is the root logger's registry, *)
(* the handler objects, the files, and the calls to arcpy and to flush and *)
(* close made so far.                                                      *)
(***************************************************************************)
World(hl, hsf, fs) ==
    [handlers |-> hl, hs |-> hsf, files |-> fs, calls |-> << >>, ops |-> << >>]

OwnsFile(o) == o.kind \in {"file", "arcpy"}

\* h.flush(): StreamHandler.flush; what is buffered reaches the file, at the
\* end of the file for a stream in mode 'a' (O_APPEND) and at the stream's own
\* offset for one in mode 'w'
Flush(W, id) ==
    LET o == W.hs[id]
        W1 == [W EXCEPT !.ops = Append(@, <<"flush", id>>)]
        bytes == BufBytes(o.buf)
        at == IF o.mode = "a" THEN Len(W.files[o.file]) ELSE o.pos
    IN IF OwnsFile(o) /\ o.stream = "open" /\ o.buf # << >>
       THEN [W1 EXCEPT !.files[o.file] = WriteAt(@, at, bytes),
                       !.hs[id].pos = at + Len(bytes),
                       !.hs[id].buf = << >>]
       ELSE W1

\* a close() that also takes the handler out of the registry
CloseAndDetach(W, id) ==
    LET o == W.hs[id]
        W1 == IF OwnsFile(o) /\ o.stream = "open"
              THEN [Flush(W, id) EXCEPT !.hs[id].stream = "none", !.hs[id].pos = 0]
              ELSE W
    IN [W1 EXCEPT !.hs[id].closed = TRUE, !.ops = Append(@, <<"close", id>>),
                  !.handlers = SelectSeq(@, LAMBDA x : x # id)]

\* h.close(): FileHandler.close flushes and drops the stream; Handler.close
\* marks the handler closed; the handler stays in the registry of its logger
Close(W, id) ==
    LET o == W.hs[id]
        W1 == IF OwnsFile(o) /\ o.stream = "open"
              THEN [Flush(W, id) EXCEPT !.hs[id].stream = "none", !.hs[id].pos = 0]
              ELSE W
    IN [W1 EXCEPT !.hs[id].closed = TRUE, !.ops = Append(@, <<"close", id>>)]

RECURSIVE FlushLoop(_, _)
FlushLoop(W, hl) ==
    IF hl = << >> THEN W ELSE FlushLoop(Flush(W, Head(hl)), Tail(hl))

\* for h in logging.getLogger().handlers: h.flush()
FlushAll(W) == FlushLoop(W, W.handlers)

Reverse(s) == [i \in 1..Len(s) |-> s[Len(s) + 1 - i]]

RECURSIVE ShutdownLoop(_, _)
\* the loop of logging.shutdown: h.flush(); h.close()
ShutdownLoop(W, order) ==
    IF order = << >> THEN W
    ELSE ShutdownLoop(Close(Flush(W, Head(order)), Head(order)), Tail(order))

\* logging.shutdown(): every handler of logging._handlerList, the newest first
Shutdown(W, hlist) == ShutdownLoop(W, Reverse(hlist))

\* flush_and_close_logger without its own loop of flushes
ShutdownOnly(W, hlist) == Shutdown(W, hlist)

\* the body of flush_and_close_logger
FlushAndClose(W, hlist) == Shutdown(FlushAll(W), hlist)

\* the comparisons of emit with > in place of >=
ChannelStrict(levelno) ==
    IF levelno > ERROR THEN "AddError"
    ELSE IF levelno > WARNING THEN "AddWarning"
    ELSE "AddMessage"

\* the host channel ArcPyLogHandler.emit picks for a level
Channel(levelno) ==
    IF levelno >= ERROR THEN "AddError"
    ELSE IF levelno >= WARNING THEN "AddWarning"
    ELSE "AddMessage"

\* my_msg without the fallback to record.msg
MyMsgNoFallback(formatter, rec) == Format(formatter, rec).text

\* my_msg of ArcPyLogHandler.emit: self.format(record), or record.msg when that fails
MyMsg(formatter, rec) ==
    LET fm == Format(formatter, rec)
    IN IF fm.ok THEN fm.text ELSE rec.msg

\* ArcPyLogHandler.emit(record)
ArcPyEmit(W, id, rec) ==
    [W EXCEPT !.calls = Append(@, <<Channel(rec.levelno), MyMsg(W.hs[id].formatter, rec)>>)]

\* StreamHandler.emit on a file: format, write, flush; a failure goes to
\* handleError and not to the caller
StreamEmit(W, id, rec) ==
    LET fm == Format(W.hs[id].formatter, rec)
    IN IF fm.ok
       THEN Flush([W EXCEPT !.hs[id].buf = Append(@, fm.text)], id)
       ELSE W

\* FileHandler.emit: a handler without a stream opens its file again, unless
\* its mode is 'w' and it has been closed
FileEmit(W, id, rec) ==
    LET o == W.hs[id]
        W1 == IF o.stream = "none" /\ (o.mode # "w" \/ ~o.closed)
              THEN [W EXCEPT !.hs[id] = OpenAt([o EXCEPT !.stream = "open"], W.files),
                             !.files = Open(@, o.file, o.mode)]
              ELSE W
    IN IF W1.hs[id].stream = "open" THEN StreamEmit(W1, id, rec) ELSE W1

\* Handler.handle(record) -> emit(record) of the handler's class
Emit(W, id, rec) ==
    CASE W.hs[id].kind = "file" -> FileEmit(W, id, rec)
      [] W.hs[id].kind = "arcpy" -> ArcPyEmit(W, id, rec)
      [] OTHER -> W

RECURSIVE CallLoop(_, _, _)
CallLoop(W, hl, rec) ==
    IF hl = << >> THEN W
    ELSE LET id == Head(hl)
             W1 == IF rec.levelno >= W.hs[id].level THEN Emit(W, id, rec) ELSE W
         IN CallLoop(W1, Tail(hl), rec)

\* Logger.callHandlers: each handler whose level the record reaches
CallHandlers(W, rec) == CallLoop(W, W.handlers, rec)

\* Logger.isEnabledFor of the root logger (manager.disable is 0)
IsEnabledFor(rl, levelno) == IF 0 >= levelno THEN FALSE ELSE levelno >= rl

(***************************************************************************)
(* The operations.                                                         *)
(***************************************************************************)
\* one more operation of the session
Step ==
    /\ ncalls < MaxCalls
    /\ ncalls' = ncalls + 1

\* init_logging(filename, level, fmt, datefmt, mode)
InitLogging(filename, level, fmt, datefmt, mode) ==
    LET bc == BasicConfig(handlers, rootLevel, NOTSET, Transient)
        rm == RemoveAllHandlers(bc.handlers)
        args == InitAddArgs(level, fmt, datefmt)
        raised == rm.indexError \/ ~CanOpen(filename)
        hs0 == Collect(hs, rm.removed, rm.handlers, held)
        hs1 == [hs0 EXCEPT ![nextId] = OpenAt(NewFileHandler(filename, mode), files)]
        ad == AddHandlerTo(rm.handlers, hs1, nextId, args.level, args.fmt, args.datefmt)
    IN /\ Step
       /\ rootLevel' = bc.rootLevel
       /\ IF raised
          THEN /\ handlers' = rm.handlers
               /\ hs' = hs0
               /\ UNCHANGED <<nextId, files>>
          ELSE /\ handlers' = ad.handlers
               /\ hs' = ad.hs
               /\ nextId' = nextId + 1
               /\ files' = Open(files, filename, mode)
       /\ last' = [Blank EXCEPT !.op = "init_logging", !.h = nextId, !.level = level,
                                !.fmt = fmt, !.datefmt = datefmt, !.raised = raised,
                                !.removed = rm.removed, !.left = rm.handlers,
                                !.indexError = rm.indexError]
       /\ calls' = << >>
       /\ UNCHANGED held

\* add_handler(h, level, fmt, datefmt), h a handler that exists and the caller
\* can name: logging.lastResort, one it holds, or one of
\* logging.getLogger().handlers
AddHandler(h, level, fmt, datefmt) ==
    LET ad == AddHandlerTo(handlers, hs, h, level, fmt, datefmt)
    IN /\ Step
       /\ h < nextId
       /\ h = LastResort \/ h \in held \/ InSeq(h, handlers)
       /\ handlers' = ad.handlers
       /\ hs' = ad.hs
       /\ last' = [Blank EXCEPT !.op = "add_handler", !.h = h, !.level = level,
                                !.fmt = fmt, !.datefmt = datefmt]
       /\ calls' = << >>
       /\ UNCHANGED <<rootLevel, nextId, held, files>>

\* flush_and_close_logger()
FlushAndCloseLogger ==
    LET W == FlushAndClose(World(handlers, hs, files), HandlerList)
    IN /\ Step
       /\ handlers' = W.handlers
       /\ hs' = W.hs
       /\ files' = W.files
       /\ calls' = W.calls
       /\ last' = [Blank EXCEPT !.op = "flush_and_close_logger", !.ops = W.ops]
       /\ UNCHANGED <<rootLevel, nextId, held>>

\* _logging_is_active()
LoggingIsActiveCall ==
    /\ Step
    /\ last' = [Blank EXCEPT !.op = "_logging_is_active",
                             !.result = LoggingIsActive(handlers)]
    /\ calls' = << >>
    /\ UNCHANGED <<rootLevel, handlers, hs, nextId, held, files>>

\* ArcPyLogHandler(ArcPath), constructed by the caller
ConstructArcPyLogHandler ==
    /\ Step
    /\ hs' = [hs EXCEPT ![nextId] = OpenAt(NewArcPyLogHandler, files)]
    /\ files' = Open(files, ArcPath, "a")
    /\ nextId' = nextId + 1
    /\ held' = held \cup {nextId}
    /\ last' = [Blank EXCEPT !.op = "ArcPyLogHandler", !.h = nextId]
    /\ calls' = << >>
    /\ UNCHANGED <<rootLevel, handlers>>

\* h = logging.getLogger().handlers[i]: the caller takes a reference of its
\* own to an attached handler, which keeps the handler alive once
\* init_logging has removed it
KeepHandler(h) ==
    /\ Step
    /\ InSeq(h, handlers)
    /\ h \notin held
    /\ held' = held \cup {h}
    /\ last' = [Blank EXCEPT !.op = "handlers[i]", !.h = h]
    /\ calls' = << >>
    /\ UNCHANGED <<rootLevel, handlers, hs, nextId, files>>

\* add_handler(ArcPyLogHandler(ArcPath), level, fmt, datefmt): the handler is
\* constructed in the call
AddNewArcPyLogHandler(level, fmt, datefmt) ==
    LET hs1 == [hs EXCEPT ![nextId] = OpenAt(NewArcPyLogHandler, files)]
        ad == AddHandlerTo(handlers, hs1, nextId, level, fmt, datefmt)
    IN /\ Step
       /\ handlers' = ad.handlers
       /\ hs' = ad.hs
       /\ files' = Open(files, ArcPath, "a")
       /\ nextId' = nextId + 1
       /\ last' = [Blank EXCEPT !.op = "add_handler", !.h = nextId, !.level = level,
                                !.fmt = fmt, !.datefmt = datefmt]
       /\ calls' = << >>
       /\ UNCHANGED <<rootLevel, held>>

\* h.emit(rec) called on an ArcPyLogHandler
EmitCall(h, rec) ==
    LET W == ArcPyEmit(World(handlers, hs, files), h, rec)
    IN /\ Step
       /\ h < nextId
       /\ hs[h].kind = "arcpy"
       /\ h \in held \/ InSeq(h, handlers)
       /\ calls' = W.calls
       /\ last' = [Blank EXCEPT !.op = "emit", !.h = h, !.rec = rec]
       /\ UNCHANGED <<rootLevel, handlers, hs, nextId, held, files>>

\* logging.getLogger().log(rec.levelno, rec.msg, *rec.args)
Log(rec) ==
    LET W0 == World(handlers, hs, files)
        W == IF IsEnabledFor(rootLevel, rec.levelno)
             THEN CallHandlers(W0, rec)
             ELSE W0
    IN /\ Step
       /\ handlers' = W.handlers
       /\ hs' = W.hs
       /\ files' = W.files
       /\ calls' = W.calls
       /\ last' = [Blank EXCEPT !.op = "log", !.rec = rec]
       /\ UNCHANGED <<rootLevel, nextId, held>>

\* logging.basicConfig(level=level) done by another tool earlier in the session
EarlierBasicConfig(level) ==
    LET bc == BasicConfig(handlers, rootLevel, level, nextId)
    IN /\ Step
       /\ rootLevel' = bc.rootLevel
       /\ handlers' = bc.handlers
       /\ hs' = IF bc.made THEN [hs EXCEPT ![nextId] = NewStreamHandler] ELSE hs
       /\ nextId' = IF bc.made THEN nextId + 1 ELSE nextId
       /\ last' = [Blank EXCEPT !.op = "basicConfig", !.level = level]
       /\ calls' = << >>
       /\ UNCHANGED <<held, files>>

Next ==
    \/ \E c \in InitCalls : InitLogging(c.filename, c.level, c.fmt, c.datefmt, c.mode)
    \/ \E h \in AllHandlers, c \in AddCalls : AddHandler(h, c.level, c.fmt, c.datefmt)
    \/ \E c \in AddCalls : AddNewArcPyLogHandler(c.level, c.fmt, c.datefmt)
    \/ FlushAndCloseLogger
    \/ LoggingIsActiveCall
    \/ ConstructArcPyLogHandler
    \/ \E h \in HandlerIds : KeepHandler(h)
    \/ \E h \in HandlerIds, r \in Records : EmitCall(h, r)
    \/ \E r \in LoggedRecords : Log(r)
    \/ \E l \in EarlierLevels : EarlierBasicConfig(l)

Spec == Init /\ [][Next]_vars

(***************************************************************************)
(* The claims.                                                             *)
(***************************************************************************)
Attached(h, hl) == \E i \in 1..Len(hl) : hl[i] = h
Occurrences(h, s) == Cardinality({i \in 1..Len(s) : s[i] = h})
InitReturned(l) == l.op = "init_logging" /\ ~l.raised

\* C1: when init_logging returns, the registry holds exactly one handler: the
\* file handler that call constructed, which none of the handlers attached
\* before it is.
C1_InitLeavesItsHandlerOnly ==
    [][InitReturned(last') =>
          /\ Len(handlers') = 1
          /\ handlers'[1] = last'.h
          /\ hs[last'.h].kind = "none"
          /\ hs'[last'.h].kind = "file"
          /\ \A g \in AllHandlers : Attached(g, handlers) => ~Attached(g, handlers')]_vars

\* init_logging has returned after removing two handlers: one that an earlier
\* init_logging left (destroyed since), and a closed one the caller still holds
C1_Witness ==
    /\ InitReturned(last)
    /\ Len(last.removed) >= 2
    /\ \E i \in 1..Len(last.removed) : hs[last.removed[i]].kind = "gone"
    /\ \E i \in 1..Len(last.removed) :
          last.removed[i] \in held /\ hs[last.removed[i]].closed

\* C2: emit calls exactly one channel, once: AddError iff the level is >= ERROR,
\* AddWarning iff it is >= WARNING and < ERROR, AddMessage iff it is below
\* WARNING; a record logged through the root logger reaches no other channel
\* either.
C2_SeverityRouting ==
    /\ last.op = "emit" => Len(calls) = 1
    /\ last.op \in {"emit", "log"} =>
          \A i \in 1..Len(calls) :
             LET c == calls[i][1]
                 lv == last.rec.levelno
             IN /\ c \in {"AddError", "AddWarning", "AddMessage"}
                /\ (c = "AddError") <=> (lv >= ERROR)
                /\ (c = "AddWarning") <=> (lv >= WARNING /\ lv < ERROR)
                /\ (c = "AddMessage") <=> (lv < WARNING)

\* emit has been called with a record one below ERROR
C2_Witness ==
    /\ last.op = "emit"
    /\ last.rec.levelno = ERROR - 1
    /\ calls = <<<<"AddWarning", calls[1][2]>>>>

\* what the three formatters of the model make of the record ("n=%d", 7)
C3_Formatted(formatter) ==
    CASE formatter = NoFormatter -> "n=7"
      [] formatter = Formatter(DefaultFmt, DefaultDateFmt) -> "29-10-2026 19:32 alice BOX1 n=7"
      [] formatter = Formatter(NoUserFmt, YearDateFmt) -> "2026 n=7"
      [] OTHER -> "?"

\* C3: emit always makes its call: with the formatted string when the record
\* can be formatted, with the raw record.msg when it cannot, on the channel of
\* the record's level in both cases.
C3_FallbackToRawMessage ==
    last.op = "emit" =>
       /\ ~last.raised
       /\ Len(calls) = 1
       /\ calls[1][1] = (IF last.rec.levelno >= ERROR THEN "AddError"
                         ELSE IF last.rec.levelno >= WARNING THEN "AddWarning"
                         ELSE "AddMessage")
       /\ calls[1][2] = (IF last.rec.args = "7"
                         THEN C3_Formatted(hs[last.h].formatter)
                         ELSE last.rec.msg)

\* emit has been called on a handler with a formatter of its own and a record
\* whose args do not fit its msg
C3_Witness ==
    /\ last.op = "emit"
    /\ last.rec.args = "x"
    /\ hs[last.h].formatter # NoFormatter
    /\ calls = <<<<"AddError", "n=%d">>>>

\* C4: a record (one that can be formatted) logged right after
\* init_logging(filename, level=L) has returned is written to the file iff its
\* level is >= L, whatever configured the logging facility before.
C4_FileTakesRecordsFromLevel ==
    [][(InitReturned(last) /\ last'.op = "log" /\ GetMessage(last'.rec).ok) =>
          LET f == hs[last.h].file
          IN IF last'.rec.levelno >= last.level
             THEN /\ LineCount(files'[f]) = LineCount(files[f]) + 1
                  /\ Len(files'[f]) > Len(files[f])
                  /\ SubSeq(files'[f], 1, Len(files[f])) = files[f]
             ELSE files'[f] = files[f]]_vars

\* C5: the handler init_logging attaches has the level given to init_logging
\* and a formatter made of the fmt and datefmt given to init_logging, the
\* default template standing in for fmt only when fmt is "".
C5_InitConfiguresItsHandler ==
    InitReturned(last) =>
       /\ hs[last.h].level = last.level
       /\ hs[last.h].formatter =
             Formatter(IF last.fmt = EmptyFmt THEN DefaultFmt ELSE last.fmt, last.datefmt)

\* C6 as stated: add_handler(h, ...) leaves every handler attached before
\* attached, in the same order, with its level and formatter, and appends h.
C6_AddOnlyAppends ==
    [][last'.op = "add_handler" =>
          /\ handlers' = Append(handlers, last'.h)
          /\ \A i \in 1..Len(handlers) :
                /\ hs'[handlers[i]].level = hs[handlers[i]].level
                /\ hs'[handlers[i]].formatter = hs[handlers[i]].formatter]_vars

\* C6 as amended: add_handler(h, ...) leaves every handler other than h as it
\* was and the handlers attached before in their order; h gets the level and
\* the formatter asked for; h is appended when it was not attached, and keeps
\* its place when it was.  So k handlers not yet attached make the registry k
\* longer.
C6_AddLeavesTheOthers ==
    [][last'.op = "add_handler" =>
          LET h == last'.h
          IN /\ \A g \in AllHandlers \ {h} : hs'[g] = hs[g]
             /\ hs'[h].level = last'.level
             /\ hs'[h].formatter =
                   Formatter(IF last'.fmt = EmptyFmt THEN DefaultFmt ELSE last'.fmt,
                             last'.datefmt)
             /\ Attached(h, handlers) => handlers' = handlers
             /\ ~Attached(h, handlers) =>
                   /\ handlers' = Append(handlers, h)
                   /\ Len(handlers') = Len(handlers) + 1]_vars

\* add_handler has attached a second handler after the one of init_logging
C6_Witness ==
    /\ last.op = "add_handler"
    /\ Len(handlers) = 3
    /\ hs[handlers[1]].kind = "file"
    /\ handlers[3] = last.h

\* C7: flush_and_close_logger first flushes the handlers of the registry, in
\* their order, and closes nothing before that; every attached handler is
\* flushed before it is closed; afterwards no attached handler has anything
\* buffered or a file open, and all are closed.
C7_FlushThenShutdown ==
    last.op = "flush_and_close_logger" =>
       LET n == Len(handlers)
           ops == last.ops
       IN /\ Len(ops) >= n
          /\ \A i \in 1..n : ops[i] = <<"flush", handlers[i]>>
          /\ \A j \in 1..Len(ops) : ops[j][1] = "close" => j > n
          /\ \A i \in 1..n :
                \E j, k \in 1..Len(ops) :
                   /\ j < k
                   /\ ops[j] = <<"flush", handlers[i]>>
                   /\ ops[k] = <<"close", handlers[i]>>
          /\ \A i \in 1..n :
                /\ hs[handlers[i]].buf = << >>
                /\ hs[handlers[i]].closed
                /\ OwnsFile(hs[handlers[i]]) => hs[handlers[i]].stream = "none"

\* flush_and_close_logger has run with two handlers attached and a line in the
\* log file
C7_Witness ==
    /\ last.op = "flush_and_close_logger"
    /\ Len(handlers) >= 2
    /\ LineCount(files[LogPath]) >= 1
    /\ \E i \in 1..Len(handlers) : hs[handlers[i]].kind = "file"

\* C8: _logging_is_active() returns TRUE iff some handler is attached: FALSE as
\* the first operation on a pristine facility, TRUE right after an add_handler;
\* and it changes nothing.
C8_ActiveIffAttached ==
    [][/\ last'.op = "_logging_is_active" =>
             /\ last'.result <=> (\E g \in AllHandlers : Attached(g, handlers))
             /\ last.op = "none" => ~last'.result
             /\ last.op = "add_handler" => last'.result
             /\ UNCHANGED <<rootLevel, handlers, hs, nextId, held, files>>]_vars

\* _logging_is_active() has returned TRUE with one handler attached
C8_Witness ==
    /\ last.op = "_logging_is_active"
    /\ last.result
    /\ Len(handlers) = 1

\* C9: the removal step of init_logging removes the attached handlers from the
\* last to the first, each once, never indexes past the end of the list, and
\* leaves the registry empty; with no handler attached, all it removes is the
\* StreamHandler its own basicConfig has just made.
C9_RemovalEmptiesRegistry ==
    [][last'.op = "init_logging" =>
          /\ ~last'.indexError
          /\ last'.left = << >>
          /\ \A g \in AllHandlers :
                Occurrences(g, last'.removed) = (IF Attached(g, handlers) THEN 1 ELSE 0)
          /\ handlers # << >> => last'.removed = Reverse(handlers)
          /\ handlers = << >> => last'.removed = <<Transient>>]_vars

\* init_logging has removed two handlers
C9_Witness ==
    /\ last.op = "init_logging"
    /\ Len(last.removed) = 2
    /\ last.removed[1] # last.removed[2]

\* C10: flush_and_close_logger leaves the registry as it was, so that
\* _logging_is_active() answers as before; only init_logging takes a handler
\* out of the registry.
C10_FlushKeepsRegistry ==
    [][/\ last'.op = "flush_and_close_logger" =>
             /\ handlers' = handlers
             /\ LoggingIsActive(handlers') = LoggingIsActive(handlers)
       /\ (\E g \in AllHandlers : Attached(g, handlers) /\ ~Attached(g, handlers')) =>
             last'.op = "init_logging"]_vars

\* flush_and_close_logger has closed a handler that is still attached
C10_Witness ==
    /\ last.op = "flush_and_close_logger"
    /\ Len(handlers) >= 1
    /\ \A i \in 1..Len(handlers) : hs[handlers[i]].closed

=============================================================================
